---- MODULE Spec2Model ----
(***************************************************************************)
(* Broker abstraction layer of sambaths/trading-algo: the symbol registry  *)
(* and its per-broker resolvers, the BrokerGateway facade (capability      *)
(* dispatch, margin policy, historical-data chunking) and the simulated    *)
(* FyrodhaDriver (order/position ledger, seed-broker fallbacks, streaming  *)
(* loop).  Strings are sequences of one-character strings so that split,   *)
(* strip, upper and endswith are computed as the Python code computes      *)
(* them.                                                                   *)
(***************************************************************************)
EXTENDS Integers, Sequences, FiniteSets, TLC

VARIABLES
    \* --- SymbolRegistry (symbols/registry.py) ---
    _resolvers,     \* broker -> name of the registered resolver, or "none"
    _to_broker,     \* broker -> static mapping internal -> native
    _from_broker,   \* broker -> inverse static mapping
    regCount,       \* number of register_* calls made so far
    symInput,       \* the caller's symbol string
    symStage,       \* which registry calls have been applied to symInput
    symNorm,        \* normalize(symInput)
    symNorm2,       \* normalize(symNorm)
    symBroker,      \* broker used for the translation
    symNative,      \* to_broker_symbol(symBroker, symNorm)
    symBack,        \* from_broker_symbol(symBroker, symNative)
    \* --- BrokerGateway dispatch and margin policy (core/gateway.py) ---
    capabilities,   \* the driver's BrokerCapabilities record
    gwOp,           \* the Gateway operation called last
    gwOutcome,      \* how that call ended: "returned" or the error raised
    drvOutcome,     \* what the driver's operation did: "not_called", "returned" or its error
    drvResult,      \* the value the driver returned
    gwResult,       \* the value the Gateway returned
    gwCalls,        \* number of Gateway calls made so far
    broker_name,    \* the broker the gateway was built for
    po_passed,      \* place_order: the request as the caller passed it
    po_request,     \* place_order: the caller's request object after the call
    po_req2,        \* place_order: the request the driver received
    \* --- BrokerGateway.get_history (core/gateway.py) ---
    h_pc,           \* "idle", "loop" (in the while loop), "returned", or the error raised
    h_interval,     \* argument interval
    h_start,        \* argument start, a YYYY-MM-DD date
    h_end,          \* argument end, a YYYY-MM-DD date
    h_driver,       \* signature of the driver's get_history: "contract" or "with_oi"
    h_profile,      \* what the driver's get_history returns for a chunk
    h_start_dt,     \* start_dt (a day ordinal)
    h_end_dt,       \* end_dt (a day ordinal)
    h_max_days,     \* max_days
    h_current_start,\* current_start (a day ordinal)
    h_calls,        \* the (chunk_start, chunk_end) pairs passed to driver.get_history
    h_all_candles,  \* all_candles
    \* --- FyrodhaDriver ledger and seed-backed operations (integrations/fyrodha/driver.py) ---
    _positions,     \* pos_key -> Position
    _orders,        \* order id -> ledger entry
    _seed_fyers,    \* the seed-broker Gateway: "gateway", or "None" when its construction failed
    _on_order_update_cb, \* the order-update callback: "cb" once registered, else "none"
    clock,          \* int(time.time() * 1000)
    simOp,          \* the driver operation called last
    simOutcome,     \* "returned", or the exception that left the operation
    simResult,      \* the value that operation returned
    seedUse,        \* the seed broker during that operation: "unused", "ok", "missing", "raised"
    events,         \* the order-update events the last operation passed to the callback
    fills,          \* pos_key -> the fills made since the entry was created
    simOps,         \* number of driver operations called so far
    \* --- FyrodhaDriver streaming loop (integrations/fyrodha/driver.py) ---
    _ws_running,    \* the running flag
    _ws_symbols,    \* the subscribed symbols (a list)
    _ws_on_ticks,   \* TRUE when a callable tick callback is stored
    _ws_on_connect, \* TRUE when a callable connect callback is stored
    _ws_on_close,   \* TRUE when a callable close callback is stored
    loops,          \* thread index -> state of the _ws_loop running on that thread
    runStarts,      \* connect_websocket calls since the flag was last cleared: 0, 1, 2 (or more)
    cleanStart,     \* TRUE when no loop was alive at the first connect_websocket call
    raisedIn,       \* the loop whose connect or tick callback raised in the last step, or 0
    unsubscribed    \* symbols named in unsubscribe calls and not subscribed since
                    \* made since the flag was last cleared

symVars == <<_resolvers, _to_broker, _from_broker, regCount, symInput, symStage,
             symNorm, symNorm2, symBroker, symNative, symBack>>

gwVars == <<capabilities, gwOp, gwOutcome, drvOutcome, drvResult, gwResult, gwCalls,
            broker_name, po_passed, po_request, po_req2>>

histVars == <<h_pc, h_interval, h_start, h_end, h_driver, h_profile, h_start_dt, h_end_dt,
              h_max_days, h_current_start, h_calls, h_all_candles>>

simVars == <<_positions, _orders, _seed_fyers, _on_order_update_cb, clock, simOp, simOutcome,
             simResult, seedUse, events, fills, simOps>>

wsVars == <<_ws_running, _ws_symbols, _ws_on_ticks, _ws_on_connect, _ws_on_close, loops,
            runStarts, cleanStart, raisedIn, unsubscribed>>

vars == <<symVars, gwVars, histVars, simVars, wsVars>>

(***************************************************************************)
(* Bounds of the model.                                                    *)
(***************************************************************************)
MaxSuffixes == 2    \* decoration suffixes appended to an input symbol

MaxRegs == 1        \* register_resolver / register_mapping calls explored

MaxGwCalls == 2     \* Gateway dispatch calls explored in a run

MaxSimOps == 3      \* simulated-driver operations explored in a run

MaxClock == 1       \* clock readings explored: 0..MaxClock

MaxLoops == 2       \* streaming threads started in a run

MaxBars == 2        \* candles a history window yields for a symbol

(***************************************************************************)
(* Python str helpers on sequences of characters.                          *)
(***************************************************************************)
UpperChar(c) ==
    LET LowerAlpha == <<"a","b","c","d","e","f","g","h","i","j","k","l","m",
                        "n","o","p","q","r","s","t","u","v","w","x","y","z">>
        UpperAlpha == <<"A","B","C","D","E","F","G","H","I","J","K","L","M",
                        "N","O","P","Q","R","S","T","U","V","W","X","Y","Z">>
    IN  IF \E i \in 1..26 : LowerAlpha[i] = c
        THEN UpperAlpha[CHOOSE i \in 1..26 : LowerAlpha[i] = c]
        ELSE c

StrUpper(s) == [i \in 1..Len(s) |-> UpperChar(s[i])]


RECURSIVE LStrip(_)
LStrip(s) == IF s # <<>> /\ Head(s) = " " THEN LStrip(Tail(s)) ELSE s

RECURSIVE RStrip(_)
RStrip(s) ==
    IF s # <<>> /\ s[Len(s)] = " " THEN RStrip(SubSeq(s, 1, Len(s) - 1)) ELSE s

StrStrip(s) == RStrip(LStrip(s))

EndsWith(s, suf) ==
    /\ Len(s) >= Len(suf)
    /\ SubSeq(s, Len(s) - Len(suf) + 1, Len(s)) = suf

Contains(s, sub) ==
    \E i \in 1..(Len(s) - Len(sub) + 1) : SubSeq(s, i, i + Len(sub) - 1) = sub

DropLast(s, n) == SubSeq(s, 1, Len(s) - n)

HasColon(s) == \E i \in 1..Len(s) : s[i] = ":"

FirstColon(s) == CHOOSE i \in 1..Len(s) : s[i] = ":" /\ \A j \in 1..(i - 1) : s[j] # ":"

\* symbol.split(":", 1) of a string that contains ":"
SplitHead(s) == SubSeq(s, 1, FirstColon(s) - 1)

SplitTail(s) == SubSeq(s, FirstColon(s) + 1, Len(s))

DictGet(m, k, default) == IF k \in DOMAIN m THEN m[k] ELSE default

(***************************************************************************)
(* String literals of the registry and the resolvers.                      *)
(***************************************************************************)
COLON == <<":">>

NSE == <<"N","S","E">>

SUF_EQ == <<"-","E","Q">>

SUF_STOCK == <<"-","S","T","O","C","K">>

SUF_INDEX == <<"-","I","N","D","E","X">>

\* {"NIFTY 50": "NIFTY50-INDEX", "NIFTY BANK": "NIFTYBANK-INDEX", "FINNIFTY": "FINNIFTY-INDEX"}
index_map ==
    (<<"N","I","F","T","Y"," ","5","0">> :> (<<"N","I","F","T","Y","5","0">> \o SUF_INDEX))
    @@ (<<"N","I","F","T","Y"," ","B","A","N","K">>
            :> (<<"N","I","F","T","Y","B","A","N","K">> \o SUF_INDEX))
    @@ (<<"F","I","N","N","I","F","T","Y">> :> (<<"F","I","N","N","I","F","T","Y">> \o SUF_INDEX))

\* the same three pairs, from the Fyers index name to the Zerodha one
fyers_index_to_zerodha ==
    ((<<"N","I","F","T","Y","5","0">> \o SUF_INDEX) :> <<"N","I","F","T","Y"," ","5","0">>)
    @@ ((<<"N","I","F","T","Y","B","A","N","K">> \o SUF_INDEX)
            :> <<"N","I","F","T","Y"," ","B","A","N","K">>)
    @@ ((<<"F","I","N","N","I","F","T","Y">> \o SUF_INDEX) :> <<"F","I","N","N","I","F","T","Y">>)

(***************************************************************************)
(* SymbolRegistry.normalize                                                *)
(***************************************************************************)
normalize(symbol) ==
    IF HasColon(symbol)
    THEN LET exchange == StrUpper(StrStrip(SplitHead(symbol)))
             s0 == StrStrip(SplitTail(symbol))
             s1 == IF EndsWith(s0, SUF_EQ) THEN DropLast(s0, 3) ELSE s0
             s2 == IF EndsWith(s1, SUF_STOCK) THEN DropLast(s1, 6) ELSE s1
         IN  exchange \o COLON \o s2
    ELSE NSE \o COLON \o StrUpper(StrStrip(symbol))

(***************************************************************************)
(* symbols/resolvers.py                                                    *)
(***************************************************************************)
_fyers_resolver(internal0) ==
    LET internal == IF ~HasColon(internal0) THEN NSE \o COLON \o internal0 ELSE internal0
        exch == SplitHead(internal)
        sym == SplitTail(internal)
        sym_u == StrUpper(sym)
    IN  IF sym_u \in DOMAIN index_map
        THEN exch \o COLON \o index_map[sym_u]
        ELSE IF \/ EndsWith(sym_u, <<"C","E">>)
                \/ EndsWith(sym_u, <<"P","E">>)
                \/ Contains(sym_u, <<"F","U","T">>)
                \/ EndsWith(sym_u, SUF_INDEX)
             THEN exch \o COLON \o sym
             ELSE IF ~EndsWith(sym_u, SUF_EQ)
                  THEN exch \o COLON \o sym \o SUF_EQ
                  ELSE exch \o COLON \o sym

_zerodha_resolver(internal0) ==
    LET internal == IF ~HasColon(internal0) THEN NSE \o COLON \o internal0 ELSE internal0
        exch == SplitHead(internal)
        sym == SplitTail(internal)
        sym_u == StrUpper(sym)
    IN  IF sym_u \in DOMAIN fyers_index_to_zerodha
        THEN exch \o COLON \o fyers_index_to_zerodha[sym_u]
        ELSE IF EndsWith(sym_u, SUF_EQ)
             THEN exch \o COLON \o DropLast(sym, 3)
             ELSE exch \o COLON \o sym

ResolverNames == {"_fyers_resolver", "_zerodha_resolver"}

ApplyResolver(name, internal) ==
    IF name = "_fyers_resolver" THEN _fyers_resolver(internal) ELSE _zerodha_resolver(internal)

(***************************************************************************)
(* SymbolRegistry.to_broker_symbol / from_broker_symbol                    *)
(***************************************************************************)
\* a lookup that consults the static mapping before the resolver
MappingFirst(broker, internal_symbol) ==
    IF internal_symbol \in DOMAIN _to_broker[broker]
    THEN _to_broker[broker][internal_symbol]
    ELSE IF _resolvers[broker] # "none"
         THEN ApplyResolver(_resolvers[broker], internal_symbol)
         ELSE internal_symbol

to_broker_symbol(broker, internal_symbol) ==
    IF _resolvers[broker] # "none"
    THEN ApplyResolver(_resolvers[broker], internal_symbol)
    ELSE DictGet(_to_broker[broker], internal_symbol, internal_symbol)

from_broker_symbol(broker, broker_symbol) ==
    DictGet(_from_broker[broker], broker_symbol, normalize(broker_symbol))

(***************************************************************************)
(* Symbol strings explored: an optional exchange prefix, a trading symbol  *)
(* of a cash equity, and up to MaxSuffixes decorations.                    *)
(***************************************************************************)
SymDecor == { SUF_EQ, SUF_STOCK, <<"-","e","q">>, <<" ">> }

RECURSIVE DecorSeqs(_)
DecorSeqs(n) ==
    IF n = 0 THEN { << >> }
    ELSE DecorSeqs(n - 1) \cup { d \o e : d \in DecorSeqs(n - 1), e \in SymDecor }

\* symbols a caller passes: an optional exchange prefix, a trading symbol, decoration
SymbolInputs ==
    LET SymPrefixes == { << >>,
                         <<"N","S","E",":">>,
                         <<"n","s","e",":">>,
                         <<"b","s","e",":">>,
                         <<" ","n","s","e"," ",":">> }
        SymCores == { <<"I","N","F","Y">>, <<"i","n","f","y">>, <<"A","C","E">> }
    IN  { p \o c \o d : p \in SymPrefixes, c \in SymCores, d \in DecorSeqs(MaxSuffixes) }

Brokers == {"fyers", "zerodha", "paper"}

NSE_INFY == NSE \o COLON \o <<"I","N","F","Y">>

MappingTables == { (NSE_INFY :> <<"I","N","F","Y",".","N","S">>),
                   (NSE_INFY :> (NSE_INFY \o SUF_EQ)) }

EmptyDict == [k \in {} |-> k]

\* {v: k for k, v in internal_to_broker.items()}
InverseDict(m) ==
    [v \in {m[k] : k \in DOMAIN m} |-> CHOOSE k \in DOMAIN m : m[k] = v]

\* State after `import brokers`: resolvers.py has registered both resolvers.
SymInitRegistry ==
    /\ _resolvers = [b \in Brokers |->
                        IF b = "fyers" THEN "_fyers_resolver"
                        ELSE IF b = "zerodha" THEN "_zerodha_resolver" ELSE "none"]
    /\ _to_broker = [b \in Brokers |-> EmptyDict]
    /\ _from_broker = [b \in Brokers |-> EmptyDict]
    /\ regCount = 0

SymIdle ==
    /\ SymInitRegistry
    /\ symInput = << >>
    /\ symStage = "idle"
    /\ symNorm = << >>
    /\ symNorm2 = << >>
    /\ symBroker = "none"
    /\ symNative = << >>
    /\ symBack = << >>

SymInit ==
    /\ SymInitRegistry
    /\ symInput \in SymbolInputs
    /\ symStage = "input"
    /\ symNorm = << >>
    /\ symNorm2 = << >>
    /\ symBroker = "none"
    /\ symNative = << >>
    /\ symBack = << >>

register_resolver ==
    \E broker \in Brokers, resolver \in ResolverNames :
        /\ regCount < MaxRegs
        /\ _resolvers' = [_resolvers EXCEPT ![broker] = resolver]
        /\ regCount' = regCount + 1
        /\ UNCHANGED <<_to_broker, _from_broker, symInput, symStage, symNorm, symNorm2,
                       symBroker, symNative, symBack>>
        /\ UNCHANGED <<gwVars, histVars, simVars, wsVars>>

register_mapping ==
    \E broker \in Brokers, internal_to_broker \in MappingTables :
        /\ regCount < MaxRegs
        /\ _to_broker' = [_to_broker EXCEPT ![broker] = internal_to_broker]
        /\ _from_broker' = [_from_broker EXCEPT ![broker] = InverseDict(internal_to_broker)]
        /\ regCount' = regCount + 1
        /\ UNCHANGED <<_resolvers, symInput, symStage, symNorm, symNorm2,
                       symBroker, symNative, symBack>>
        /\ UNCHANGED <<gwVars, histVars, simVars, wsVars>>

\* symbol_registry.normalize(symbol) on the caller's string
CallNormalize ==
    /\ symStage = "input"
    /\ symNorm' = normalize(symInput)
    /\ symStage' = "normalized"
    /\ UNCHANGED <<_resolvers, _to_broker, _from_broker, regCount, symInput, symNorm2,
                   symBroker, symNative, symBack>>
    /\ UNCHANGED <<gwVars, histVars, simVars, wsVars>>

\* normalize applied to an already normalized symbol
CallNormalizeAgain ==
    /\ symStage = "normalized"
    /\ symNorm2' = normalize(symNorm)
    /\ symStage' = "renormalized"
    /\ UNCHANGED <<_resolvers, _to_broker, _from_broker, regCount, symInput, symNorm,
                   symBroker, symNative, symBack>>
    /\ UNCHANGED <<gwVars, histVars, simVars, wsVars>>

\* symbol_registry.to_broker_symbol(broker, internal)
CallToBroker ==
    \E broker \in Brokers :
        /\ symStage = "normalized"
        /\ symBroker' = broker
        /\ symNative' = to_broker_symbol(broker, symNorm)
        /\ symStage' = "native"
        /\ UNCHANGED <<_resolvers, _to_broker, _from_broker, regCount, symInput, symNorm,
                       symNorm2, symBack>>
        /\ UNCHANGED <<gwVars, histVars, simVars, wsVars>>

\* symbol_registry.from_broker_symbol(broker, native)
CallFromBroker ==
    /\ symStage = "native"
    /\ symBack' = from_broker_symbol(symBroker, symNative)
    /\ symStage' = "back"
    /\ UNCHANGED <<_resolvers, _to_broker, _from_broker, regCount, symInput, symNorm,
                   symNorm2, symBroker, symNative>>
    /\ UNCHANGED <<gwVars, histVars, simVars, wsVars>>

SymNext ==
    \/ register_resolver
    \/ register_mapping
    \/ CallNormalize
    \/ CallNormalizeAgain
    \/ CallToBroker
    \/ CallFromBroker

(***************************************************************************)
(* BrokerGateway: delegation of the capability-flagged operations and the  *)
(* margin policy.  The driver is the Gateway's collaborator: what it       *)
(* returns or raises is chosen nondeterministically.                       *)
(***************************************************************************)
Flags == {"supports_historical", "supports_quotes", "supports_funds", "supports_positions",
          "supports_place_order", "supports_modify_order", "supports_cancel_order",
          "supports_tradebook", "supports_orderbook", "supports_websocket",
          "supports_order_websocket", "supports_master_contract", "supports_option_chain",
          "supports_gtt", "supports_bracket_order", "supports_cover_order",
          "supports_multileg_order", "supports_basket_orders"}

\* BrokerCapabilities(): the dataclass defaults
DefaultCaps ==
    [f \in Flags |-> f \in {"supports_historical", "supports_quotes", "supports_funds",
                            "supports_positions", "supports_place_order",
                            "supports_modify_order", "supports_cancel_order",
                            "supports_tradebook", "supports_orderbook", "supports_websocket"}]

\* FyrodhaDriver.__init__
FyrodhaCaps ==
    [f \in Flags |-> f \in {"supports_historical", "supports_quotes", "supports_funds",
                            "supports_positions", "supports_place_order",
                            "supports_modify_order", "supports_cancel_order",
                            "supports_tradebook", "supports_orderbook",
                            "supports_option_chain", "supports_multileg_order",
                            "supports_basket_orders"}]

\* FyersDriver.__init__
FyersCaps == [FyrodhaCaps EXCEPT !["supports_websocket"] = TRUE]

\* a market-data-only driver: the descriptor's flags are free fields
DataOnlyCaps ==
    [f \in Flags |-> f \in {"supports_historical", "supports_quotes"}]

Descriptors == {DefaultCaps, FyrodhaCaps, FyersCaps, DataOnlyCaps}

\* Gateway methods whose body is `return self.driver.<same method>(...)`
DelegatedOps == {"get_option_chain", "download_instruments", "get_instruments",
                 "connect_websocket", "connect_order_websocket", "place_gtt_order",
                 "place_bracket_order", "place_cover_order", "place_basket_orders",
                 "place_multileg_order", "get_quote", "place_order"}

\* the BrokerCapabilities flag that describes each operation
FlagOf(op) ==
    CASE op = "get_option_chain" -> "supports_option_chain"
      [] op = "download_instruments" -> "supports_master_contract"
      [] op = "get_instruments" -> "supports_master_contract"
      [] op = "connect_websocket" -> "supports_websocket"
      [] op = "connect_order_websocket" -> "supports_order_websocket"
      [] op = "place_gtt_order" -> "supports_gtt"
      [] op = "place_bracket_order" -> "supports_bracket_order"
      [] op = "place_cover_order" -> "supports_cover_order"
      [] op = "place_basket_orders" -> "supports_basket_orders"
      [] op = "place_multileg_order" -> "supports_multileg_order"
      [] op = "get_quote" -> "supports_quotes"
      [] op = "place_order" -> "supports_place_order"

MarginOps == {"get_margins_required", "get_span_margin", "get_multiorder_margin"}

\* what a driver operation can do: return, or raise (the BrokerDriver defaults
\* of the optional operations raise NotImplementedError)
DriverRaises == {"NotImplementedError", "BrokerError"}

NoneValue == [isNone |-> TRUE, margin_total |-> 0]

MarginValue(m) == [isNone |-> FALSE, margin_total |-> m]

\* results a driver's margin operation can return: None, a zero margin, a margin
DriverMarginResults == {NoneValue, MarginValue(0), MarginValue(2500)}

\* Python `not result`: None and zero are falsy
IsFalsy(result) == result.isNone \/ result.margin_total = 0

\* Python `result is None`
IsNone(result) == result.isNone

\* the value of the place_order variables while no order has been placed
NoRequest == [ref |-> "none"]

\* request.symbol = ... : assignment to the caller's own object
assign_symbol(request, broker_symbol) ==
    [request EXCEPT !.symbol = IF HasColon(broker_symbol) THEN SplitTail(broker_symbol)
                                ELSE broker_symbol]

\* dataclasses.replace(request, symbol=broker_symbol.split(":", 1)[1] if ":" in
\* broker_symbol else broker_symbol): a new object, every other field carried over
replace_symbol(request, broker_symbol) ==
    [request EXCEPT !.ref = "copy",
                    !.symbol = IF HasColon(broker_symbol) THEN SplitTail(broker_symbol)
                               ELSE broker_symbol]

GwIdle ==
    /\ capabilities = FyrodhaCaps
    /\ gwOp = "none"
    /\ gwOutcome = "none"
    /\ drvOutcome = "not_called"
    /\ drvResult = NoneValue
    /\ gwResult = NoneValue
    /\ gwCalls = 0
    /\ broker_name = "paper"
    /\ po_passed = NoRequest
    /\ po_request = NoRequest
    /\ po_req2 = NoRequest

GwInit ==
    /\ capabilities \in Descriptors
    /\ gwOp = "none"
    /\ gwOutcome = "none"
    /\ drvOutcome = "not_called"
    /\ drvResult = NoneValue
    /\ gwResult = NoneValue
    /\ gwCalls = 0
    /\ broker_name \in Brokers
    /\ po_passed = NoRequest
    /\ po_request = NoRequest
    /\ po_req2 = NoRequest

\* get_option_chain .. place_multileg_order, get_quote, place_order:
\* the Gateway calls the driver's operation and passes on what it does
GwDelegate ==
    \E op \in DelegatedOps, out \in {"returned"} \cup DriverRaises :
        /\ gwCalls < MaxGwCalls
        /\ gwCalls' = gwCalls + 1
        /\ gwOp' = op
        /\ drvOutcome' = out
        /\ gwOutcome' = out
        /\ drvResult' = NoneValue
        /\ gwResult' = NoneValue
        /\ UNCHANGED <<capabilities, broker_name, po_passed, po_request, po_req2>>
        /\ UNCHANGED <<symVars, histVars, simVars, wsVars>>

\* the tail shared by the three margin operations:
\* result = self.driver.<op>(orders); if result is None: raise; return result
MarginDelegate(op) ==
    \/ \E result \in DriverMarginResults :
          /\ gwOp' = op
          /\ drvOutcome' = "returned"
          /\ drvResult' = result
          /\ IF IsNone(result)
             THEN gwOutcome' = "MarginUnavailableError" /\ gwResult' = NoneValue
             ELSE gwOutcome' = "returned" /\ gwResult' = result
    \/ \E err \in DriverRaises :
          /\ gwOp' = op
          /\ drvOutcome' = err
          /\ drvResult' = NoneValue
          /\ gwOutcome' = err
          /\ gwResult' = NoneValue

Gw_get_margins_required ==
    /\ gwCalls < MaxGwCalls
    /\ gwCalls' = gwCalls + 1
    /\ IF ~capabilities["supports_place_order"]
       THEN /\ gwOp' = "get_margins_required"
            /\ gwOutcome' = "UnsupportedOperationError"
            /\ drvOutcome' = "not_called"
            /\ drvResult' = NoneValue
            /\ gwResult' = NoneValue
       ELSE MarginDelegate("get_margins_required")
    /\ UNCHANGED <<capabilities, broker_name, po_passed, po_request, po_req2>>
    /\ UNCHANGED <<symVars, histVars, simVars, wsVars>>

Gw_get_span_margin ==
    /\ gwCalls < MaxGwCalls
    /\ gwCalls' = gwCalls + 1
    /\ MarginDelegate("get_span_margin")
    /\ UNCHANGED <<capabilities, broker_name, po_passed, po_request, po_req2>>
    /\ UNCHANGED <<symVars, histVars, simVars, wsVars>>

Gw_get_multiorder_margin ==
    /\ gwCalls < MaxGwCalls
    /\ gwCalls' = gwCalls + 1
    /\ MarginDelegate("get_multiorder_margin")
    /\ UNCHANGED <<capabilities, broker_name, po_passed, po_request, po_req2>>
    /\ UNCHANGED <<symVars, histVars, simVars, wsVars>>

\* BrokerGateway.place_order, typed path: the canonical symbol is resolved to
\* the broker's symbol and a copy of the request carrying it goes to the driver
Gw_place_order ==
    \E symbol \in {<<"I", "N", "F", "Y">>, <<"i", "n", "f", "y">>, <<"N", "I", "F", "T", "Y", "5", "0">>},
       exchange \in {NSE, <<"B", "S", "E">>},
       out \in {"returned"} \cup DriverRaises :
        LET request == [ref |-> "request", symbol |-> symbol, exchange |-> exchange,
                        quantity |-> 100, order_type |-> "MARKET",
                        transaction_type |-> "BUY", product_type |-> "INTRADAY",
                        price |-> "None", stop_price |-> "None", validity |-> "DAY",
                        tag |-> "None", extras |-> "extras_dict"]
            internal == exchange \o COLON \o symbol
            broker_symbol == to_broker_symbol(broker_name, internal)
            req2 == replace_symbol(request, broker_symbol)
        IN  /\ gwCalls < MaxGwCalls
            /\ gwCalls' = gwCalls + 1
            /\ gwOp' = "place_order"
            /\ po_passed' = request
            /\ po_req2' = req2
            \* the caller's variable still names the object it passed
            /\ po_request' = IF req2.ref = request.ref THEN req2 ELSE request
            /\ drvOutcome' = out
            /\ gwOutcome' = out
            /\ drvResult' = NoneValue
            /\ gwResult' = NoneValue
            /\ UNCHANGED <<capabilities, broker_name>>
            /\ UNCHANGED <<symVars, histVars, simVars, wsVars>>

GwNext ==
    \/ GwDelegate
    \/ Gw_place_order
    \/ Gw_get_margins_required
    \/ Gw_get_span_margin
    \/ Gw_get_multiorder_margin

(***************************************************************************)
(* Calendar arithmetic of datetime: strptime("%Y-%m-%d") to a day ordinal, *)
(* timedelta(days=n) on ordinals, strftime("%Y-%m-%d") back to a date.     *)
(* A date string YYYY-MM-DD is the record [y, m, d].                       *)
(***************************************************************************)
Date(y, m, d) == [y |-> y, m |-> m, d |-> d]

IsLeap(y) == (y % 4 = 0) /\ ((y % 100 # 0) \/ (y % 400 = 0))

DaysInMonth(y, m) ==
    IF m = 2 THEN (IF IsLeap(y) THEN 29 ELSE 28)
    ELSE IF m \in {4, 6, 9, 11} THEN 30 ELSE 31

RECURSIVE DaysBeforeMonth(_, _)
DaysBeforeMonth(y, m) ==
    IF m = 1 THEN 0 ELSE DaysBeforeMonth(y, m - 1) + DaysInMonth(y, m - 1)

DaysBeforeYear(year) ==
    LET y == year - 1 IN y * 365 + (y \div 4) - (y \div 100) + (y \div 400)

\* datetime.strptime(s, "%Y-%m-%d"), as the ordinal of the day
ToOrdinal(date) == DaysBeforeYear(date.y) + DaysBeforeMonth(date.y, date.m) + date.d

\* datetime.strftime("%Y-%m-%d") of the day with ordinal n
FromOrdinal(n0) ==
    LET DI400Y == 146097    \* days in 400 years
        DI100Y == 36524     \* days in 100 years
        DI4Y == 1461        \* days in 4 years
        n1 == n0 - 1
        n400 == n1 \div DI400Y
        r400 == n1 % DI400Y
        n100 == r400 \div DI100Y
        r100 == r400 % DI100Y
        n4 == r100 \div DI4Y
        r4 == r100 % DI4Y
        ny == r4 \div 365
        n == r4 % 365
        year == n400 * 400 + 1 + n100 * 100 + n4 * 4 + ny
    IN  IF ny = 4 \/ n100 = 4
        THEN Date(year - 1, 12, 31)
        ELSE LET month == CHOOSE m \in 1..12 :
                              /\ DaysBeforeMonth(year, m) <= n
                              /\ n < DaysBeforeMonth(year, m) + DaysInMonth(year, m)
             IN  Date(year, month, n - DaysBeforeMonth(year, month) + 1)

Min(a, b) == IF a <= b THEN a ELSE b

(***************************************************************************)
(* BrokerGateway.get_history                                               *)
(***************************************************************************)
\* "Determine chunk size based on interval"
MaxDaysFor(interval) ==
    IF interval \in {"day", "1d", "D", "1D"} THEN 366
    ELSE IF interval \in {"5S", "10S", "15S", "30S", "45S"} THEN 30
    ELSE 100

\* current_end = min(current_start + timedelta(days=max_days - 1), end_dt)
ChunkEnd(current_start, max_days, end_dt) == Min(current_start + (max_days - 1), end_dt)

\* a next chunk that starts on the day the previous one ended
StayAtEnd(current_end) == current_end

\* current_start = current_end + timedelta(days=1)
NextStart(current_end) == current_end + 1

HistIntervals == {"1d", "D", "30S", "5m", "60m"}

HistStartDates == { Date(2024, 1, 1), Date(2024, 3, 1), Date(2023, 12, 2) }

HistEndDates == { Date(2023, 12, 1), Date(2024, 1, 1), Date(2024, 1, 30), Date(2024, 1, 31),
                  Date(2024, 4, 9), Date(2024, 4, 10), Date(2024, 12, 31), Date(2025, 1, 1),
                  Date(2025, 2, 4) }

\* The driver's get_history as the Driver Contract, FyersDriver and
\* FyrodhaDriver declare it takes (symbol, interval, start, end); the Gateway
\* passes a fifth positional argument, which only a driver declared with an
\* oi parameter accepts.
DriverSignatures == {"contract", "with_oi"}

\* what a driver that accepts the call returns for the k-th chunk
DriverProfiles == {"bars", "empty", "none", "every_other"}

DriverBars(profile, k, chunk_start, chunk_end) ==
    IF profile = "bars" \/ (profile = "every_other" /\ k % 2 = 1)
    THEN IF chunk_start = chunk_end
         THEN << [day |-> chunk_start] >>
         ELSE << [day |-> chunk_start], [day |-> chunk_end] >>
    ELSE << >>

HistIdle ==
    /\ h_pc = "idle"
    /\ h_interval = "none"
    /\ h_start = Date(2024, 1, 1)
    /\ h_end = Date(2024, 1, 1)
    /\ h_driver = "contract"
    /\ h_profile = "bars"
    /\ h_start_dt = 0
    /\ h_end_dt = 0
    /\ h_max_days = 0
    /\ h_current_start = 0
    /\ h_calls = << >>
    /\ h_all_candles = << >>

\* entry of get_history up to the while loop
Gw_get_history_call ==
    \E interval \in HistIntervals, start \in HistStartDates, end \in HistEndDates,
       sig \in DriverSignatures, profile \in DriverProfiles :
        /\ h_pc = "idle"
        /\ (sig = "contract" => profile = "bars")
        /\ h_interval' = interval
        /\ h_start' = start
        /\ h_end' = end
        /\ h_driver' = sig
        /\ h_profile' = profile
        /\ h_start_dt' = ToOrdinal(start)
        /\ h_end_dt' = ToOrdinal(end)
        /\ h_max_days' = MaxDaysFor(interval)
        /\ h_current_start' = ToOrdinal(start)
        /\ h_calls' = << >>
        /\ h_all_candles' = << >>
        /\ h_pc' = "loop"
        /\ UNCHANGED <<symVars, gwVars, simVars, wsVars>>

\* one iteration of `while current_start <= end_dt`
Gw_get_history_chunk ==
    /\ h_pc = "loop"
    /\ h_current_start <= h_end_dt
    /\ LET current_end == ChunkEnd(h_current_start, h_max_days, h_end_dt)
           chunk_start == FromOrdinal(h_current_start)
           chunk_end == FromOrdinal(current_end)
           chunk_data == DriverBars(h_profile, Len(h_calls) + 1, chunk_start, chunk_end)
       IN  /\ h_calls' = Append(h_calls, <<chunk_start, chunk_end>>)
           /\ IF h_driver = "contract"
              THEN \* driver.get_history(broker_symbol, interval, chunk_start, chunk_end, oi)
                   /\ h_pc' = "TypeError"
                   /\ UNCHANGED <<h_all_candles, h_current_start>>
              ELSE /\ h_all_candles' = h_all_candles \o chunk_data
                   /\ h_current_start' = NextStart(current_end)
                   /\ h_pc' = "loop"
    /\ UNCHANGED <<h_interval, h_start, h_end, h_driver, h_profile, h_start_dt, h_end_dt,
                   h_max_days>>
    /\ UNCHANGED <<symVars, gwVars, simVars, wsVars>>

\* loop exit and `return all_candles`
Gw_get_history_return ==
    /\ h_pc = "loop"
    /\ ~(h_current_start <= h_end_dt)
    /\ h_pc' = "returned"
    /\ UNCHANGED <<h_interval, h_start, h_end, h_driver, h_profile, h_start_dt, h_end_dt,
                   h_max_days, h_current_start, h_calls, h_all_candles>>
    /\ UNCHANGED <<symVars, gwVars, simVars, wsVars>>

HistNext ==
    \/ Gw_get_history_call
    \/ Gw_get_history_chunk
    \/ Gw_get_history_return

(***************************************************************************)
(* FyrodhaDriver: prices.  Prices are whole rupees; an average price is an *)
(* exact fraction <<numerator, denominator>> in lowest terms.  Random      *)
(* draws (random.Random) are nondeterministic choices from small sets.     *)
(***************************************************************************)
Max(a, b) == IF a >= b THEN a ELSE b

RECURSIVE GCD(_, _)
GCD(a, b) == IF b = 0 THEN a ELSE GCD(b, a % b)

\* the fraction n / d (d > 0) in lowest terms
Frac(n, d) ==
    LET g == GCD(IF n < 0 THEN -n ELSE n, d) IN IF g = 0 THEN <<0, 1>> ELSE <<n \div g, d \div g>>

\* values self._rng.uniform(100, 1000) can draw
RandomPrices == {150}

\* last_price values the seed broker's get_quote can report (a quote with a
\* last_price that is not positive is not used)
SeedPrices == {0, 120}

PriceNone == [isNone |-> TRUE, value |-> 0]

PriceOf(v) == [isNone |-> FALSE, value |-> v]

\* Python truthiness of request.price: None and 0 are falsy
PriceFalsy(price) == price.isNone \/ price.value = 0

\* _seed_quote: the outcomes <<price, seed use>> it can have
SeedQuoteOutcomes ==
    IF _seed_fyers = "gateway"
    THEN { <<q, "ok">> : q \in {s \in SeedPrices : s > 0} }
         \cup { <<r, "ok">> : r \in IF \E s \in SeedPrices : s <= 0 THEN RandomPrices ELSE {} }
         \cup { <<r, "raised">> : r \in RandomPrices }
    ELSE { <<r, "missing">> : r \in RandomPrices }

\* standard-normal draws explored: z in {-1, 0, 1}, the same for a whole call
\* ("up", "down", "flat") or cycling ("zigzag")
DrawPatterns == {"up", "down", "flat", "zigzag"}

Draw(pattern, k) ==
    CASE pattern = "up" -> 1
      [] pattern = "down" -> -1
      [] pattern = "flat" -> 0
      [] pattern = "zigzag" -> (k % 3) - 1

\* _bm_step with sigma = 0.015: price * exp(-sigma^2/2 + sigma*z), to the
\* rupee, floored; exp(0.015 z) is taken as 1 + 0.015 z
PriceFloor == 1

\* a step that returns the product as it is
StepWithoutFloor(price, sigma, z) ==
    (price * Max(1, 1000 + sigma * z - (sigma * sigma) \div 2000)) \div 1000

\* max(0.01, price * math.exp((mu - 0.5*sigma*sigma)*dt + sigma*math.sqrt(dt)*z))
\* with mu = 0, dt = 1 and sigma in thousandths; exp(x) is taken as 1 + x
\* where that is positive and as its smallest positive value elsewhere
_bm_step_sigma(price, sigma, z) ==
    Max(PriceFloor,
        (price * Max(1, 1000 + sigma * z - (sigma * sigma) \div 2000)) \div 1000)

_bm_step(price, z) == _bm_step_sigma(price, 15, z)

(***************************************************************************)
(* FyrodhaDriver: order and position ledger                                *)
(***************************************************************************)
\* one key for every product kind of an instrument
KeyWithoutProduct(exchange, symbol, product) == <<exchange, symbol, "ANY">>

\* pos_key = f"{exchange}:{symbol}:{product_type}"
PosKey(exchange, symbol, product) == <<exchange, symbol, product>>

\* every order counted as a buy
AlwaysBuy(transaction_type) == 1

\* side = 1 if request.transaction_type == TransactionType.BUY else -1
SideSign(transaction_type) == IF transaction_type = "BUY" THEN 1 ELSE -1

\* new_avg of a wrongly simple mean, used to test the claims
MeanOfPrices(avg, qty_total, price, quantity) ==
    Frac(avg[1] + price * avg[2], 2 * avg[2])

\* (existing.average_price * existing.quantity_total + price * quantity)
\*     / max(1, existing.quantity_total + quantity)
WeightedAvg(avg, qty_total, price, quantity) ==
    Frac(avg[1] * qty_total + price * quantity * avg[2],
         avg[2] * Max(1, qty_total + quantity))

\* the Position stored for a key after a fill
FilledPosition(existing, hasExisting, request, price) ==
    LET side == SideSign(request.transaction_type)
        quantity == request.quantity
    IN  IF hasExisting
        THEN LET new_qty == existing.quantity_total + side * quantity
             IN  [ symbol |-> existing.symbol,
                   exchange |-> existing.exchange,
                   quantity_total |-> new_qty,
                   quantity_available |-> existing.quantity_available + side * quantity,
                   average_price |->
                       IF new_qty # 0
                       THEN WeightedAvg(existing.average_price, existing.quantity_total,
                                        price, quantity)
                       ELSE existing.average_price,
                   pnl |-> existing.pnl,
                   product_type |-> existing.product_type ]
        ELSE [ symbol |-> request.symbol,
               exchange |-> request.exchange,
               quantity_total |-> side * quantity,
               quantity_available |-> side * quantity,
               average_price |-> Frac(price, 1),
               pnl |-> 0,
               product_type |-> request.product_type ]

\* requests explored: every side, quantity and limit price for INTRADAY, a
\* market buy of 100, and a limit buy of 100 at 10 for CNC
OrderRequests ==
    { r \in [ symbol : {"INFY"}, exchange : {"NSE"}, quantity : {100, 200},
              transaction_type : {"BUY", "SELL"}, product_type : {"INTRADAY", "CNC"},
              price : {PriceNone, PriceOf(10), PriceOf(20)} ] :
        /\ (r.price.isNone \/ r.product_type = "CNC")
               => (r.quantity = 100 /\ r.transaction_type = "BUY")
        /\ r.price.isNone => r.product_type = "INTRADAY"
        /\ r.product_type = "CNC" => r.price = PriceOf(10) }

NoResult == [kind |-> "none"]

\* an exception of a callback reaching the operation that invoked it
Propagated(raised) == IF raised THEN "Exception" ELSE "returned"

\* try: cb(...) except Exception: pass -- how the invoking code goes on
\* after a callback that returned or raised
AfterCallback(raised) == "returned"

\* an order operation announcing itself twice
EmitTwice(status, order_id) ==
    /\ events' = IF _on_order_update_cb = "cb"
                 THEN << [event |-> "order_update", status |-> status, order_id |-> order_id,
                          raised |-> FALSE],
                         [event |-> "order_update", status |-> status, order_id |-> order_id,
                          raised |-> FALSE] >>
                 ELSE << >>
    /\ simOutcome' = "returned"

\* the callback invocation of place_order / cancel_order / modify_order;
\* events holds the invocations made by the operation that ran last, each
\* with whether the callback raised; the operation's outcome follows
Emit(status, order_id) ==
    IF _on_order_update_cb = "cb"
    THEN \E raised \in BOOLEAN :
            /\ events' = << [event |-> "order_update", status |-> status,
                             order_id |-> order_id, raised |-> raised] >>
            /\ simOutcome' = AfterCallback(raised)
    ELSE /\ events' = << >>
         /\ simOutcome' = "returned"

SimInit ==
    /\ _positions = EmptyDict
    /\ _orders = EmptyDict
    /\ _seed_fyers \in {"gateway", "None"}
    /\ _on_order_update_cb = "none"
    /\ clock = 0
    /\ simOp = "none"
    /\ simOutcome = "none"
    /\ simResult = NoResult
    /\ seedUse = "unused"
    /\ events = << >>
    /\ fills = EmptyDict
    /\ simOps = 0

SimIdle ==
    /\ _positions = EmptyDict
    /\ _orders = EmptyDict
    /\ _seed_fyers = "None"
    /\ _on_order_update_cb = "none"
    /\ clock = 0
    /\ simOp = "none"
    /\ simOutcome = "none"
    /\ simResult = NoResult
    /\ seedUse = "unused"
    /\ events = << >>
    /\ fills = EmptyDict
    /\ simOps = 0

\* readings int(time.time() * 1000) can give after the reading `last`: the
\* same millisecond or a later one (the next, up to the bound)
ClockReadings(last) == {last, Min(last + 1, MaxClock)}

place_order ==
    \E request \in OrderRequests, now \in ClockReadings(clock) :
      \E sq \in (IF PriceFalsy(request.price) THEN SeedQuoteOutcomes ELSE {<<0, "unused">>}) :
        LET oid == now
            symbol_full == <<request.exchange, request.symbol>>
            price == IF PriceFalsy(request.price) THEN sq[1] ELSE request.price.value
            pos_key == PosKey(request.exchange, request.symbol, request.product_type)
            hasExisting == pos_key \in DOMAIN _positions
            existing == IF hasExisting THEN _positions[pos_key] ELSE NoResult
            entry == [ id |-> oid, status |-> "COMPLETE", symbol |-> symbol_full,
                       price |-> price, qty |-> request.quantity,
                       side |-> SideSign(request.transaction_type) ]
            fill == [ side |-> request.transaction_type, qty |-> request.quantity,
                      price |-> price ]
        IN  /\ simOps < MaxSimOps
            /\ simOps' = simOps + 1
            /\ _positions' = (pos_key :> FilledPosition(existing, hasExisting, request, price))
                             @@ _positions
            /\ _orders' = (oid :> entry) @@ _orders
            /\ fills' = (pos_key :> Append(DictGet(fills, pos_key, << >>), fill)) @@ fills
            /\ Emit("ok", oid)
            /\ simOp' = "place_order"
            /\ simResult' = [kind |-> "OrderResponse", status |-> "ok", order_id |-> oid,
                             message |-> "None"]
            /\ seedUse' = sq[2]
            /\ clock' = now
            /\ UNCHANGED <<_seed_fyers, _on_order_update_cb>>
            /\ UNCHANGED <<symVars, gwVars, histVars, wsVars>>

\* an unknown identifier reported as a cancelled or modified order
AcceptedResponse(order_id) ==
    [kind |-> "OrderResponse", status |-> "ok", order_id |-> order_id, message |-> "None"]

\* if not od: return OrderResponse(status="error", order_id=order_id, message="order not found")
NotFoundResponse(order_id) ==
    [kind |-> "OrderResponse", status |-> "error", order_id |-> order_id,
     message |-> "order not found"]

\* identifiers a caller can pass: those the clock can have produced, and one it cannot
OrderIds == 0..(MaxClock + 1)

cancel_order ==
    \E order_id \in OrderIds :
        /\ simOps < MaxSimOps
        /\ simOps' = simOps + 1
        /\ simOp' = "cancel_order"
        /\ seedUse' = "unused"
        /\ IF order_id \notin DOMAIN _orders
           THEN /\ simResult' = NotFoundResponse(order_id)
                /\ events' = << >>
                /\ simOutcome' = "returned"
                /\ UNCHANGED _orders
           ELSE /\ _orders' = [_orders EXCEPT ![order_id] =
                                  ("status" :> "CANCELLED") @@ _orders[order_id]]
                /\ Emit("cancelled", order_id)
                /\ simResult' = [kind |-> "OrderResponse", status |-> "ok",
                                 order_id |-> order_id, message |-> "None"]
        /\ UNCHANGED <<_positions, _seed_fyers, _on_order_update_cb, clock, fills>>
        /\ UNCHANGED <<symVars, gwVars, histVars, wsVars>>

\* update maps a caller can pass to modify_order
UpdateMaps == { ("qty" :> 50), ("status" :> "OPEN") }

modify_order ==
    \E order_id \in OrderIds, updates \in UpdateMaps :
        /\ simOps < MaxSimOps
        /\ simOps' = simOps + 1
        /\ simOp' = "modify_order"
        /\ seedUse' = "unused"
        /\ IF order_id \notin DOMAIN _orders
           THEN /\ simResult' = NotFoundResponse(order_id)
                /\ events' = << >>
                /\ simOutcome' = "returned"
                /\ UNCHANGED _orders
           ELSE /\ _orders' = [_orders EXCEPT ![order_id] = updates @@ _orders[order_id]]
                /\ Emit("modified", order_id)
                /\ simResult' = [kind |-> "OrderResponse", status |-> "ok",
                                 order_id |-> order_id, message |-> "None"]
        /\ UNCHANGED <<_positions, _seed_fyers, _on_order_update_cb, clock, fills>>
        /\ UNCHANGED <<symVars, gwVars, histVars, wsVars>>

exit_positions ==
    /\ simOps < MaxSimOps
    /\ simOps' = simOps + 1
    /\ _positions' = EmptyDict
    /\ fills' = EmptyDict
    /\ simOp' = "exit_positions"
    /\ simOutcome' = "returned"
    /\ simResult' = [kind |-> "dict", s |-> "ok"]
    /\ seedUse' = "unused"
    /\ events' = << >>
    /\ UNCHANGED <<_orders, _seed_fyers, _on_order_update_cb, clock>>
    /\ UNCHANGED <<symVars, gwVars, histVars, wsVars>>

connect_order_websocket ==
    \E callable \in BOOLEAN :
        /\ simOps < MaxSimOps
        /\ simOps' = simOps + 1
        /\ _on_order_update_cb' = IF callable THEN "cb" ELSE _on_order_update_cb
        /\ simOp' = "connect_order_websocket"
        /\ simOutcome' = "returned"
        /\ simResult' = NoResult
        /\ seedUse' = "unused"
        /\ events' = << >>
        /\ UNCHANGED <<_positions, _orders, _seed_fyers, clock, fills>>
        /\ UNCHANGED <<symVars, gwVars, histVars, wsVars>>

(***************************************************************************)
(* FyrodhaDriver: operations backed by the seed broker.  A call into the   *)
(* seed Gateway either returns or raises.                                  *)
(***************************************************************************)
RECURSIVE StrReplace(_, _)
\* s.replace(old, "")
StrReplace(s, old) ==
    IF Len(s) < Len(old) THEN s
    ELSE IF SubSeq(s, 1, Len(old)) = old
         THEN StrReplace(SubSeq(s, Len(old) + 1, Len(s)), old)
         ELSE <<Head(s)>> \o StrReplace(Tail(s), old)

QuoteSymbols == { NSE_INFY, NSE_INFY \o SUF_EQ, <<"I","N","F","Y">> }

get_quote ==
    \E symbol \in QuoteSymbols, sq \in SeedQuoteOutcomes, z \in {-1, 0, 1} :
        LET base == sq[1]
            evolved == _bm_step(base, z)
            exch == IF HasColon(symbol) THEN SplitHead(symbol) ELSE NSE
            tsym == IF HasColon(symbol) THEN SplitTail(symbol) ELSE symbol
        IN  /\ simOp' = "get_quote"
            /\ simOutcome' = "returned"
            /\ simResult' = [kind |-> "Quote", symbol |-> StrReplace(tsym, SUF_EQ),
                             exchange |-> exch, last_price |-> evolved]
            /\ seedUse' = sq[2]
            /\ UNCHANGED <<_positions, _orders, _seed_fyers, _on_order_update_cb, clock,
                           events, fills, simOps>>
            /\ UNCHANGED <<symVars, gwVars, histVars, wsVars>>

\* self._bm_step(price, sigma) on its own: the prices a caller or a seed
\* candle can hand it (negative, zero, a paisa-sized and an ordinary one) and
\* volatilities from none to 200 %, of either sign
Call_bm_step ==
    \E price \in {-100, 0, 1, 150}, sigma \in {-2000, 0, 3, 15, 2000}, z \in {-1, 0, 1} :
        /\ simOp' = "_bm_step"
        /\ simOutcome' = "returned"
        /\ simResult' = [kind |-> "price", price |-> price, sigma |-> sigma, z |-> z,
                         value |-> _bm_step_sigma(price, sigma, z)]
        /\ seedUse' = "unused"
        /\ UNCHANGED <<_positions, _orders, _seed_fyers, _on_order_update_cb, clock,
                       events, fills, simOps>>
        /\ UNCHANGED <<symVars, gwVars, histVars, wsVars>>

\* datetime.utcnow(), in minutes
NowMinutes == 100000

MinutesPerDay == 1440

\* <<interval, start, end>> arguments explored; start / end are a parseable
\* date or datetime (as minutes) or a string that fromisoformat / strptime
\* reject: every interval with parseable times, and the hourly interval with
\* a start that does not parse
HistoryArgs ==
    LET Parsed == { [ok |-> TRUE, min |-> 0], [ok |-> TRUE, min |-> 45] }
        Rejected == { [ok |-> FALSE, min |-> 0] }
    IN  { <<i, s, e>> : i \in {"5m", "60m", "1d"}, s \in Parsed, e \in Parsed }
        \cup { <<"60m", s, e>> : s \in Rejected, e \in Parsed }

\* step_minutes, from interval.lower() (the intervals explored are lower-case)
StepMinutes(interval) ==
    IF interval \in {"1m", "3m", "5m"} \/ interval \in {"30m", "60m"}
    THEN CASE interval = "1m" -> 1
           [] interval = "3m" -> 3
           [] interval = "5m" -> 5
           [] interval = "30m" -> 30
           [] interval = "60m" -> 60
    ELSE 15

\* volumes int(abs(self._rng.gauss(1e5, 2e4))) explored
VolumeOf(z) == 100000 + 20000 * z

RECURSIVE Candles(_, _, _, _, _, _)
\* the while loop of get_history: t is the running price, k counts random draws
Candles(t, start_dt, end_dt, step_minutes, pattern, k) ==
    IF ~(start_dt <= end_dt) THEN << >>
    ELSE LET o == t
             h == Max(o, _bm_step(o, Draw(pattern, k)))
             l == Min(o, _bm_step(o, Draw(pattern, k + 1)))
             c == _bm_step(o, Draw(pattern, k + 2))
             v == VolumeOf(Draw(pattern, k + 3))
         IN  << [ts |-> start_dt * 60, open |-> o, high |-> h, low |-> l, close |-> c,
                 volume |-> v] >>
             \o Candles(c, start_dt + step_minutes, end_dt, step_minutes, pattern, k + 4)

get_history ==
    \E args \in HistoryArgs, sq \in SeedQuoteOutcomes, pattern \in DrawPatterns :
        LET interval == args[1]
            start == args[2]
            end == args[3]
            base == sq[1]
            parsed == start.ok /\ end.ok
            start_dt == IF parsed THEN start.min ELSE NowMinutes - MinutesPerDay
            end_dt == IF parsed THEN end.min ELSE NowMinutes
        IN  /\ simOp' = "get_history"
            /\ simOutcome' = "returned"
            /\ simResult' = [kind |-> "candles",
                             candles |-> Candles(base, start_dt, end_dt,
                                                 StepMinutes(interval), pattern, 0)]
            /\ seedUse' = sq[2]
            /\ UNCHANGED <<_positions, _orders, _seed_fyers, _on_order_update_cb, clock,
                           events, fills, simOps>>
            /\ UNCHANGED <<symVars, gwVars, histVars, wsVars>>

\* margin order dicts: qty 0 stands for a dict without qty / quantity, limitPrice 0
\* for one without limitPrice
MarginOrderLists ==
    { << >>,
      << [qty |-> 100, limitPrice |-> 10] >>,
      << [qty |-> 0, limitPrice |-> 0] >>,
      << [qty |-> 100, limitPrice |-> 10], [qty |-> 200, limitPrice |-> 0] >> }

RECURSIVE Notional(_, _)
\* sum of px * qty over the orders, px from limitPrice or else the seeded quote
Notional(orders, quote) ==
    IF orders = << >> THEN 0
    ELSE LET o == Head(orders)
             qty == IF o.qty # 0 THEN o.qty ELSE 1
             px == IF o.limitPrice # 0 THEN o.limitPrice ELSE quote
         IN  px * qty + Notional(Tail(orders), quote)

\* "Heuristic: 10% of notional"
HeuristicMargin(orders, quote) ==
    [kind |-> "margin", source |-> "heuristic", margin_total |-> Frac(Notional(orders, quote), 10)]

\* a margin result of the seed Gateway (never None: the Gateway raises instead)
SeedMargin == [kind |-> "margin", source |-> "seed", margin_total |-> Frac(2500, 1)]

\* FyrodhaDriver.get_margins_required: its possible <<outcome, result, seed use>>
MarginsRequiredOutcomes(orders) ==
    IF _seed_fyers = "gateway"
    THEN { <<"returned", SeedMargin, "ok">> }
         \cup { <<"returned", HeuristicMargin(orders, sq[1]), "raised">> :
                    sq \in SeedQuoteOutcomes }
    ELSE { <<"returned", HeuristicMargin(orders, sq[1]), "missing">> :
                    sq \in SeedQuoteOutcomes }

\* FyrodhaDriver.get_span_margin
SpanMarginOutcomes(orders) ==
    IF _seed_fyers = "gateway"
    THEN { <<"returned", SeedMargin, "ok">> }            \* seed get_span_margin returns
         \cup { <<"returned", SeedMargin, "raised">> }   \* it raises, seed get_margins_required returns
         \cup { <<"MarginUnavailableError", NoResult, "raised">> }  \* both raise
    ELSE MarginsRequiredOutcomes(orders)

get_margins_required ==
    \E orders \in MarginOrderLists :
      \E out \in MarginsRequiredOutcomes(orders) :
        /\ simOp' = "get_margins_required"
        /\ simOutcome' = out[1]
        /\ simResult' = out[2]
        /\ seedUse' = out[3]
        /\ UNCHANGED <<_positions, _orders, _seed_fyers, _on_order_update_cb, clock,
                       events, fills, simOps>>
        /\ UNCHANGED <<symVars, gwVars, histVars, wsVars>>

get_span_margin ==
    \E orders \in MarginOrderLists :
      \E out \in SpanMarginOutcomes(orders) :
        /\ simOp' = "get_span_margin"
        /\ simOutcome' = out[1]
        /\ simResult' = out[2]
        /\ seedUse' = out[3]
        /\ UNCHANGED <<_positions, _orders, _seed_fyers, _on_order_update_cb, clock,
                       events, fills, simOps>>
        /\ UNCHANGED <<symVars, gwVars, histVars, wsVars>>

get_multiorder_margin ==
    \E orders \in MarginOrderLists :
      \E out \in MarginsRequiredOutcomes(orders) :
        /\ simOp' = "get_multiorder_margin"
        /\ simOutcome' = out[1]
        /\ simResult' = out[2]
        /\ seedUse' = out[3]
        /\ UNCHANGED <<_positions, _orders, _seed_fyers, _on_order_update_cb, clock,
                       events, fills, simOps>>
        /\ UNCHANGED <<symVars, gwVars, histVars, wsVars>>

\* self._seed_fyers.<op>(): the outcomes <<outcome, seed use>> of calling a
\* method on the seed Gateway attribute
SeedAttrCallOutcomes ==
    IF _seed_fyers = "gateway"
    THEN { <<"returned", "ok">>, <<"BrokerError", "raised">> }
    ELSE { <<"AttributeError", "missing">> }

download_instruments ==
    \E out \in SeedAttrCallOutcomes :
        /\ simOp' = "download_instruments"
        /\ simOutcome' = out[1]
        /\ simResult' = NoResult
        /\ seedUse' = out[2]
        /\ UNCHANGED <<_positions, _orders, _seed_fyers, _on_order_update_cb, clock,
                       events, fills, simOps>>
        /\ UNCHANGED <<symVars, gwVars, histVars, wsVars>>

get_instruments ==
    \E out \in SeedAttrCallOutcomes :
        /\ simOp' = "get_instruments"
        /\ simOutcome' = out[1]
        /\ simResult' = IF out[1] = "returned" THEN [kind |-> "instruments"] ELSE NoResult
        /\ seedUse' = out[2]
        /\ UNCHANGED <<_positions, _orders, _seed_fyers, _on_order_update_cb, clock,
                       events, fills, simOps>>
        /\ UNCHANGED <<symVars, gwVars, histVars, wsVars>>

SimNext ==
    \/ place_order
    \/ cancel_order
    \/ modify_order
    \/ exit_positions
    \/ connect_order_websocket

SeedNext ==
    \/ get_quote
    \/ Call_bm_step
    \/ get_history
    \/ get_margins_required
    \/ get_span_margin
    \/ get_multiorder_margin
    \/ download_instruments
    \/ get_instruments

(***************************************************************************)
(* FyrodhaDriver: the streaming loop.  Each thread started by              *)
(* connect_websocket runs _ws_loop; a step of a loop is one read of the    *)
(* shared attributes (flag, symbols, callbacks) with the local work that   *)
(* follows it.  The replay configuration (interval, speed, history         *)
(* minutes, simulate date) only sets the window and the pacing; the number *)
(* of candles the window yields is chosen per cycle.                       *)
(***************************************************************************)
LoopIds == 1..MaxLoops

WsSymbolLists == { << >>, <<"A", "B">> }

\* a thread's _ws_loop: its position, its locals (the symbols snapshot, the
\* window length max_len, the bar index i, the index j into the snapshot),
\* and what it did with the callbacks
FreshLoop == [ pc |-> "unstarted", symbols |-> << >>, len |-> 0, i |-> 0, j |-> 0,
               closeCalls |-> 0, tickAfterClose |-> FALSE ]

IsAlive(l) == loops[l].pc \notin {"unstarted", "exited"}

NumActive == Cardinality({l \in LoopIds : IsAlive(l)})

NumStarted == Cardinality({l \in LoopIds : loops[l].pc # "unstarted"})

\* a start that ignores the running flag, used to test the claims
AlwaysStart(running) == TRUE

\* connect_websocket: `if self._ws_running: return`
StartsThread(running) == ~running

\* a loop that never polls the flag, used to test the claims
NeverStops(running) == TRUE

\* `while self._ws_running`
LoopContinues(running) == running

\* an unsubscribe that leaves the tracked list as it was
KeepAll(tracked, remove) == tracked

\* [s for s in self._ws_symbols if s not in remove]
Remaining(tracked, remove) == SelectSeq(tracked, LAMBDA s : s \notin remove)

WsInit ==
    /\ _ws_running = FALSE
    /\ _ws_symbols = << >>
    /\ _ws_on_ticks = FALSE
    /\ _ws_on_connect = FALSE
    /\ _ws_on_close = FALSE
    /\ loops = [l \in LoopIds |-> FreshLoop]
    /\ runStarts = 0
    /\ cleanStart = TRUE
    /\ raisedIn = 0
    /\ unsubscribed = {}

\* callbacks a caller passes: <<on_ticks, on_connect, on_close>> callable or absent
CallbackArgs == { <<TRUE, TRUE, TRUE>>, <<FALSE, FALSE, FALSE>> }

connect_websocket ==
    \E cbs \in CallbackArgs :
        /\ (StartsThread(_ws_running) => NumStarted < MaxLoops)
        /\ runStarts' = Min(runStarts + 1, 2)
        /\ _ws_on_ticks' = cbs[1]
        /\ _ws_on_connect' = cbs[2]
        /\ _ws_on_close' = cbs[3]
        /\ cleanStart' = IF runStarts = 0 THEN NumActive = 0 ELSE cleanStart
        /\ IF StartsThread(_ws_running)
           THEN /\ _ws_running' = TRUE
                /\ loops' = [loops EXCEPT ![NumStarted + 1].pc = "connect"]
           ELSE UNCHANGED <<_ws_running, loops>>
        /\ UNCHANGED _ws_symbols
        /\ raisedIn' = 0
        /\ UNCHANGED unsubscribed
        /\ UNCHANGED <<symVars, gwVars, histVars, simVars>>

\* the owner of the driver clears the running flag (no method of the driver does)
ClearRunning ==
    /\ _ws_running
    /\ _ws_running' = FALSE
    /\ runStarts' = 0
    /\ UNCHANGED <<_ws_symbols, _ws_on_ticks, _ws_on_connect, _ws_on_close, loops, cleanStart>>
    /\ raisedIn' = 0
    /\ UNCHANGED unsubscribed
    /\ UNCHANGED <<symVars, gwVars, histVars, simVars>>

symbols_to_subscribe ==
    \E symbols \in WsSymbolLists :
        /\ _ws_symbols' = symbols
        /\ unsubscribed' = unsubscribed \ {symbols[k] : k \in 1..Len(symbols)}
        /\ UNCHANGED <<_ws_running, _ws_on_ticks, _ws_on_connect, _ws_on_close, loops,
                       runStarts, cleanStart>>
        /\ raisedIn' = 0
        /\ UNCHANGED <<symVars, gwVars, histVars, simVars>>

unsubscribe ==
    \E symbols \in WsSymbolLists :
        LET remove == {symbols[k] : k \in 1..Len(symbols)}
        IN  /\ _ws_symbols' = Remaining(_ws_symbols, remove)
            /\ unsubscribed' = unsubscribed \cup remove
            /\ UNCHANGED <<_ws_running, _ws_on_ticks, _ws_on_connect, _ws_on_close, loops,
                           runStarts, cleanStart>>
            /\ raisedIn' = 0
            /\ UNCHANGED <<symVars, gwVars, histVars, simVars>>

\* entry of _ws_loop: the connect callback
LoopConnect(l) ==
    /\ loops[l].pc = "connect"
    /\ IF _ws_on_connect
       THEN \E raised \in BOOLEAN :
               /\ loops' = [loops EXCEPT ![l].pc = IF AfterCallback(raised) = "returned"
                                                   THEN "while" ELSE "finally"]
               /\ raisedIn' = IF raised THEN l ELSE 0
               /\ UNCHANGED unsubscribed
       ELSE /\ loops' = [loops EXCEPT ![l].pc = "while"]
            /\ raisedIn' = 0
            /\ UNCHANGED unsubscribed
    /\ UNCHANGED <<_ws_running, _ws_symbols, _ws_on_ticks, _ws_on_connect, _ws_on_close,
                   runStarts, cleanStart>>
    /\ UNCHANGED <<symVars, gwVars, histVars, simVars>>

\* lengths of the candle lists fetched for a window: through the seed Gateway
\* the call raises (the Gateway's get_history passes a fifth argument to its
\* driver) and the loop keeps []; without a seed the driver's own get_history
\* yields one bar when the window's start and end dates are the same day and
\* a day's bars when they are not
WindowLens == IF _seed_fyers = "gateway" THEN {0} ELSE {1, MaxBars}

\* `while self._ws_running:`, the snapshot of the subscribed symbols and the
\* history window of every symbol of the snapshot
LoopWhile(l) ==
    \E n \in WindowLens :
        /\ loops[l].pc = "while"
        /\ IF LoopContinues(_ws_running)
           THEN IF _ws_symbols = << >>
                THEN loops' = loops    \* time.sleep(0.1); continue
                ELSE loops' = [loops EXCEPT ![l].pc = "for_i", ![l].symbols = _ws_symbols,
                                            ![l].len = n, ![l].i = 0]
           ELSE loops' = [loops EXCEPT ![l].pc = "finally"]
        /\ UNCHANGED <<_ws_running, _ws_symbols, _ws_on_ticks, _ws_on_connect, _ws_on_close,
                       runStarts, cleanStart>>
        /\ raisedIn' = 0
        /\ UNCHANGED unsubscribed
        /\ UNCHANGED <<symVars, gwVars, histVars, simVars>>

\* `for i in range(max_len): if not self._ws_running: break`
LoopForI(l) ==
    /\ loops[l].pc = "for_i"
    /\ IF loops[l].i >= loops[l].len \/ ~_ws_running
       THEN \* back to the while test; the locals of the cycle are dead from here
            loops' = [loops EXCEPT ![l].pc = "while", ![l].symbols = << >>,
                                   ![l].len = 0, ![l].i = 0, ![l].j = 0]
       ELSE loops' = [loops EXCEPT ![l].pc = "emit", ![l].j = 1]
    /\ UNCHANGED <<_ws_running, _ws_symbols, _ws_on_ticks, _ws_on_connect, _ws_on_close,
                   runStarts, cleanStart>>
    /\ raisedIn' = 0
    /\ UNCHANGED unsubscribed
    /\ UNCHANGED <<symVars, gwVars, histVars, simVars>>

\* one symbol of `for s, series in symbol_to_candles.items()`: the tick
\* callback and the pacing sleep
LoopEmit(l) ==
    /\ loops[l].pc = "emit"
    /\ LET me == loops[l]
           last == me.j = Len(me.symbols)
           called == _ws_on_ticks
       IN  \E raised \in (IF called THEN BOOLEAN ELSE {FALSE}) :
           /\ raisedIn' = IF raised THEN l ELSE 0
           /\ UNCHANGED unsubscribed
           /\ IF AfterCallback(raised) = "returned"
             THEN loops' = [loops EXCEPT
                          ![l].tickAfterClose = me.tickAfterClose \/ (called /\ me.closeCalls > 0),
                          ![l].j = IF last THEN 0 ELSE me.j + 1,
                          ![l].i = IF last THEN me.i + 1 ELSE me.i,
                          ![l].pc = IF last THEN "for_i" ELSE "emit"]
             ELSE loops' = [loops EXCEPT ![l].pc = "finally"]
    /\ UNCHANGED <<_ws_running, _ws_symbols, _ws_on_ticks, _ws_on_connect, _ws_on_close,
                   runStarts, cleanStart>>
    /\ UNCHANGED <<symVars, gwVars, histVars, simVars>>

\* `finally:` the close callback, then the thread ends
LoopFinally(l) ==
    /\ loops[l].pc = "finally"
    /\ loops' = [loops EXCEPT ![l].pc = "exited",
                              ![l].closeCalls = IF _ws_on_close THEN @ + 1 ELSE @]
    /\ UNCHANGED <<_ws_running, _ws_symbols, _ws_on_ticks, _ws_on_connect, _ws_on_close,
                   runStarts, cleanStart>>
    /\ raisedIn' = 0
    /\ UNCHANGED unsubscribed
    /\ UNCHANGED <<symVars, gwVars, histVars, simVars>>

LoopStep(l) ==
    \/ LoopConnect(l)
    \/ LoopWhile(l)
    \/ LoopForI(l)
    \/ LoopEmit(l)
    \/ LoopFinally(l)

WsNext ==
    \/ connect_websocket
    \/ ClearRunning
    \/ symbols_to_subscribe
    \/ unsubscribe
    \/ \E l \in LoopIds : LoopStep(l)

(***************************************************************************)
(* Components not exercised by a specification stay in their idle state.   *)
(***************************************************************************)
InitSym == SymInit /\ GwIdle /\ HistIdle /\ SimIdle /\ WsInit

SpecSym == InitSym /\ [][SymNext]_vars

InitGw == GwInit /\ SymIdle /\ HistIdle /\ SimIdle /\ WsInit

SpecGw == InitGw /\ [][GwNext]_vars

InitHist == HistIdle /\ SymIdle /\ GwIdle /\ SimIdle /\ WsInit

SpecHist == InitHist /\ [][HistNext]_vars

InitSim == SimInit /\ SymIdle /\ GwIdle /\ HistIdle /\ WsInit

SpecSim == InitSim /\ [][SimNext]_vars

SpecSeed == InitSim /\ [][SeedNext]_vars

InitWs == WsInit /\ SymIdle /\ GwIdle /\ HistIdle /\ SimInit

SpecWs == InitWs /\ [][WsNext]_vars

\* the thread that called get_history keeps running its loop
SpecHistFair == SpecHist /\ WF_vars(HistNext)

\* The caller-supplied callbacks of the driver: the order operations and the
\* streaming loop write no variable in common, so each is explored while the
\* other is still as constructed.
CallbackNext ==
    \/ WsInit /\ SimNext
    \/ simOps = 0 /\ WsNext

SpecCallbacks == InitSim /\ [][CallbackNext]_vars

\* every started thread keeps being scheduled
SpecWsFair == SpecWs /\ \A l \in LoopIds : WF_vars(LoopStep(l))

(***************************************************************************)
(* Sums over the first n fills of a key, as the claims state them.         *)
(***************************************************************************)
RECURSIVE SignedSum(_, _)
SignedSum(f, n) ==
    IF n = 0 THEN 0
    ELSE SignedSum(f, n - 1) + (IF f[n].side = "BUY" THEN f[n].qty ELSE -f[n].qty)

RECURSIVE QtySum(_, _)
QtySum(f, n) == IF n = 0 THEN 0 ELSE QtySum(f, n - 1) + f[n].qty

\* f = n / d for a fraction f = <<numerator, denominator>>
FracEq(f, n, d) == f[1] * d = n * f[2]

RECURSIVE CostSum(_, _)
CostSum(f, n) == IF n = 0 THEN 0 ELSE CostSum(f, n - 1) + f[n].price * f[n].qty

(***************************************************************************)
(* Claims                                                                  *)
(***************************************************************************)
\* C1: normalize is idempotent: normalizing an already normalized symbol
\* returns it unchanged, normalize(normalize(s)) = normalize(s).
C1_NormalizeIdempotent ==
    symStage = "renormalized" => symNorm2 = symNorm

\* C2: a Gateway call for an operation whose capability flag is false fails
\* with UnsupportedOperationError and never reaches the driver's operation.
C2_UnsupportedFailsFast ==
    (gwOp \in DelegatedOps /\ ~capabilities[FlagOf(gwOp)])
        => (gwOutcome = "UnsupportedOperationError" /\ drvOutcome = "not_called")

\* C3: for start <= end, the chunks get_history passes to the driver cover
\* [start, end] exactly: the first starts at start, the last ends at end, and
\* each later chunk starts the day after the previous chunk's end.
C3_ChunksCoverRange ==
    (h_pc \in {"returned", "TypeError"} /\ h_start_dt <= h_end_dt)
        => /\ h_calls # << >>
           /\ h_calls[1][1] = h_start
           /\ h_calls[Len(h_calls)][2] = h_end
           /\ \A k \in 1..(Len(h_calls) - 1) :
                  ToOrdinal(h_calls[k + 1][1]) = ToOrdinal(h_calls[k][2]) + 1

\* C4: every chunk spans at most cap days inclusive (366 for daily, 30 for
\* seconds, 100 for other intervals) and a range of D days yields exactly
\* ceil(D / cap) driver calls; a daily request from 2024-01-01 to 2025-02-04
\* issues exactly 2 calls, the first covering 366 days.
C4_ChunkCapAndCount ==
    (h_pc \in {"returned", "TypeError"} /\ h_start_dt <= h_end_dt)
        => LET cap == IF h_interval \in {"day", "1d", "D", "1D"} THEN 366
                      ELSE IF h_interval \in {"5S", "10S", "15S", "30S", "45S"} THEN 30
                      ELSE 100
               D == ToOrdinal(h_end) - ToOrdinal(h_start) + 1
           IN  /\ \A k \in 1..Len(h_calls) :
                      ToOrdinal(h_calls[k][2]) - ToOrdinal(h_calls[k][1]) + 1 <= cap
               /\ Len(h_calls) = (D + cap - 1) \div cap
               /\ (h_interval = "1d" /\ h_start = Date(2024, 1, 1) /\ h_end = Date(2025, 2, 4))
                      => /\ Len(h_calls) = 2
                         /\ h_calls[1] = <<Date(2024, 1, 1), Date(2024, 12, 31)>>

\* C5: for each of the three margin operations, when the driver returns None
\* the Gateway raises MarginUnavailableError, and when the driver returns any
\* other value (a zero margin included) the Gateway returns that value unchanged.
C5_MarginPolicy ==
    (gwOp \in MarginOps /\ drvOutcome = "returned")
        => IF drvResult = NoneValue
           THEN gwOutcome = "MarginUnavailableError"
           ELSE gwOutcome = "returned" /\ gwResult = drvResult

\* C5 witness: a margin operation whose driver returned a zero-valued margin
C5_Witness ==
    /\ gwOp \in MarginOps
    /\ drvOutcome = "returned"
    /\ drvResult = MarginValue(0)
    /\ gwOutcome = "returned"

\* C6: after successive buys q1..qn at prices p1..pn from a flat key the
\* position's average price is sum(pi*qi) / sum(qi) and its total quantity is
\* sum(qi); buying 100 at 10 and then 100 at 20 gives quantity 200 at average
\* 15, and a following sell of 200 leaves the signed quantity at 0.
C6_WeightedAverage ==
    \A key \in DOMAIN _positions :
        LET f == fills[key]
            flats == {k \in 0..Len(f) : SignedSum(f, k) = 0}
            from == CHOOSE k \in flats : \A m \in flats : m <= k
            buys == SubSeq(f, from + 1, Len(f))
            pos == _positions[key]
        IN  /\ pos.quantity_total = SignedSum(f, Len(f))
            /\ (buys # << >> /\ \A k \in 1..Len(buys) : buys[k].side = "BUY")
                   => /\ pos.quantity_total = QtySum(buys, Len(buys))
                      /\ FracEq(pos.average_price, CostSum(buys, Len(buys)),
                                QtySum(buys, Len(buys)))
            /\ (Len(f) >= 2 /\ f[1] = [side |-> "BUY", qty |-> 100, price |-> 10]
                            /\ f[2] = [side |-> "BUY", qty |-> 100, price |-> 20])
                   => /\ Len(f) = 2 => (pos.quantity_total = 200 /\ pos.average_price = <<15, 1>>)
                      /\ (Len(f) = 3 /\ f[3].side = "SELL" /\ f[3].qty = 200)
                             => pos.quantity_total = 0

\* C6 witness: a key bought 100 at 10 and then 100 at 20 from no position
C6_Witness ==
    \E key \in DOMAIN _positions :
        /\ fills[key] = << [side |-> "BUY", qty |-> 100, price |-> 10],
                           [side |-> "BUY", qty |-> 100, price |-> 20] >>
        /\ _positions[key].quantity_total = 200
        /\ _positions[key].average_price = <<15, 1>>

\* C7: a connect_websocket call made while the streaming loop is running
\* starts no second loop: after two start calls in succession (the first made
\* with no loop alive) exactly one streaming loop is active.
C7_SingleLoopAfterTwoStarts ==
    (runStarts >= 2 /\ cleanStart) => NumActive = 1

\* C7 witness: two start calls in succession and one loop running
C7_Witness ==
    /\ runStarts = 2
    /\ cleanStart
    /\ _ws_running
    /\ NumActive = 1
    /\ NumStarted = 1

\* C8: after the running flag is cleared the streaming loop eventually exits
\* (unless it is started again first), a loop that exits with a close
\* callback stored invokes it exactly once, and a loop invokes no tick
\* callback after its close callback.
C8_ExitAfterClear ==
    /\ [](\A l \in LoopIds : loops[l].closeCalls <= 1 /\ ~loops[l].tickAfterClose)
    /\ [][\A l \in LoopIds :
            (loops[l].pc # "exited" /\ loops'[l].pc = "exited" /\ _ws_on_close)
                => loops'[l].closeCalls = 1]_vars
    /\ ((~_ws_running) ~> (_ws_running \/ NumActive = 0))

\* C8 witness: the flag is cleared and a loop has exited through its close callback
C8_Witness ==
    /\ ~_ws_running
    /\ NumActive = 0
    /\ \E l \in LoopIds : loops[l].pc = "exited" /\ loops[l].closeCalls = 1

\* C9: for a broker with a registered resolver and a cash-equity symbol s,
\* from_broker_symbol(b, to_broker_symbol(b, normalize(s))) = normalize(s).
C9_RoundTrip ==
    (symStage = "back" /\ _resolvers[symBroker] # "none") => symBack = symNorm

\* C10: whenever the seed broker is missing or raises, each of get_quote,
\* get_history, get_margins_required, get_span_margin, download_instruments
\* and get_instruments returns a fallback result instead of raising.
C10_SeedFailureContained ==
    (/\ simOp \in {"get_quote", "get_history", "get_margins_required", "get_span_margin",
                    "download_instruments", "get_instruments"}
     /\ seedUse \in {"missing", "raised"})
        => simOutcome = "returned"

\* C11: BrokerGateway.place_order with a typed OrderRequest never mutates the
\* caller's request: after the call every field of the original is unchanged,
\* and the driver receives a distinct copy that differs from the original only
\* in its symbol, which is the broker's own symbol for "<exchange>:<symbol>"
\* (its trading-symbol part, the exchange staying in the exchange field).
C11_RequestNotMutated ==
    (gwOp = "place_order" /\ po_passed # NoRequest) =>
        LET native == to_broker_symbol(broker_name, po_passed.exchange \o COLON \o po_passed.symbol)
        IN  /\ po_request = po_passed
            /\ po_req2.ref # po_request.ref
            /\ DOMAIN po_req2 = DOMAIN po_passed
            /\ \A f \in DOMAIN po_passed \ {"ref", "symbol"} : po_req2[f] = po_passed[f]
            /\ po_req2.symbol = IF HasColon(native) THEN SplitTail(native) ELSE native

\* a fyers gateway was handed NSE:INFY and its driver got the equity symbol
\* in a copy, while the caller's request still names INFY
C11_Witness ==
    /\ gwOp = "place_order"
    /\ po_passed # NoRequest
    /\ broker_name = "fyers"
    /\ po_passed.symbol = <<"I", "N", "F", "Y">>
    /\ po_request.symbol = <<"I", "N", "F", "Y">>
    /\ po_req2.symbol = <<"I", "N", "F", "Y", "-", "E", "Q">>
    /\ po_req2.ref = "copy"

\* C12: cancel_order and modify_order with an identifier that is not in the
\* ledger return an error response with message "order not found", leave the
\* ledger and the position map unchanged, and emit no order-update event.
C12_UnknownOrderRejected ==
    [][ ( /\ simOps' = simOps + 1
          /\ simOp' \in {"cancel_order", "modify_order"}
          /\ simResult'.order_id \notin DOMAIN _orders )
        => ( /\ simOutcome' = "returned"
             /\ simResult'.status = "error"
             /\ simResult'.message = "order not found"
             /\ _orders' = _orders
             /\ _positions' = _positions
             /\ events' = << >> ) ]_vars

\* an unknown identifier was refused while the ledger held an order, a
\* position was open and a callback was registered
C12_Witness ==
    /\ simOp \in {"cancel_order", "modify_order"}
    /\ simResult.status = "error"
    /\ simResult.order_id \notin DOMAIN _orders
    /\ _orders # EmptyDict
    /\ _positions # EmptyDict
    /\ _on_order_update_cb = "cb"
    /\ events = << >>

\* C13: once a callback is registered through connect_order_websocket, every
\* successful place_order, cancel_order and modify_order invokes it exactly
\* once, before returning, with an event carrying the order's identifier and
\* status ok, cancelled or modified respectively; with no callback registered
\* no event is emitted.
C13_OneEventPerOrderOperation ==
    /\ (_on_order_update_cb = "none") => (events = << >>)
    /\ ( /\ simOp \in {"place_order", "cancel_order", "modify_order"}
         /\ simResult.status = "ok"
         /\ _on_order_update_cb = "cb" )
       => ( /\ Len(events) = 1
            /\ events[1].event = "order_update"
            /\ events[1].order_id = simResult.order_id
            /\ events[1].status = ( "place_order" :> "ok" @@ "cancel_order" :> "cancelled"
                                     @@ "modify_order" :> "modified" )[simOp] )

\* with a callback registered an order was placed and then cancelled, and the
\* cancellation was announced once
C13_Witness ==
    /\ simOp = "cancel_order"
    /\ simResult.status = "ok"
    /\ _on_order_update_cb = "cb"
    /\ Len(events) = 1
    /\ events[1].status = "cancelled"
    /\ _orders[simResult.order_id].status = "CANCELLED"

\* the order operations' half of C14: when the order-update callback raises,
\* the triggering operation still returns its ok response with the ledger
\* and position updates applied
OrderSurvivesCallback ==
    ( /\ simOp \in {"place_order", "cancel_order", "modify_order"}
      /\ events # << >>
      /\ events[1].raised )
    => ( /\ simOutcome = "returned"
         /\ simResult.kind = "OrderResponse"
         /\ simResult.status = "ok"
         /\ simResult.order_id \in DOMAIN _orders
         /\ LET od == _orders[simResult.order_id]
            IN  CASE simOp = "place_order" ->
                        /\ od.status = "COMPLETE"
                        /\ \E k \in DOMAIN _positions :
                              fills[k] # << >> /\ fills[k][Len(fills[k])].price = od.price
                  [] simOp = "cancel_order" -> od.status = "CANCELLED"
                  [] simOp = "modify_order" -> (od.qty = 50 \/ od.status = "OPEN") )

\* the streaming loop's half of C14: a step in which the connect or tick
\* callback raised leaves the loop running, at the while test after the
\* connect callback and at the next emission after a tick callback
LoopSurvivesCallback ==
    \A l \in LoopIds :
        (raisedIn' = l /\ loops' # loops) =>
            IF loops[l].pc = "connect"
            THEN loops'[l].pc = "while"
            ELSE /\ loops[l].pc = "emit"
                 /\ IF loops[l].j = Len(loops[l].symbols)
                    THEN loops'[l].pc = "for_i" /\ loops'[l].i = loops[l].i + 1
                    ELSE loops'[l].pc = "emit" /\ loops'[l].j = loops[l].j + 1
                                               /\ loops'[l].i = loops[l].i

\* C14: an exception raised inside a caller-supplied callback is swallowed:
\* when the order-update callback raises, the order operation still returns
\* its ok response with the ledger and position updates applied; when the
\* connect or tick callback raises, the streaming loop keeps running and goes
\* on to the next emission.
C14_CallbackFailuresSwallowed ==
    /\ []OrderSurvivesCallback
    /\ [][LoopSurvivesCallback]_vars

\* the tick callback raised on the first symbol of a bar and the loop stands
\* at the emission of the second
C14_Witness ==
    \E l \in LoopIds :
        /\ raisedIn = l
        /\ loops[l].pc = "emit"
        /\ loops[l].j = 2
        /\ _ws_running

\* C15: every place_order call returns an order identifier that differs from
\* every identifier returned before, so no ledger entry is ever overwritten by
\* a later order, also when two orders are placed within the same clock reading.
C15_OrderIdsUnique ==
    [][ (simOps' = simOps + 1 /\ simOp' = "place_order")
        => ( /\ simResult'.order_id \notin DOMAIN _orders
             /\ \A id \in DOMAIN _orders : _orders'[id] = _orders[id] ) ]_vars

\* C16: a position entry is created on the first fill for its (exchange,
\* symbol, product) key and is removed only by exit_positions: no place_order,
\* cancel_order or modify_order removes a position, even when a fill brings
\* its quantity to zero, and fills that differ in product kind update
\* separate positions.
C16_PositionLifecycle ==
    /\ [](\A k \in DOMAIN _positions :
            /\ k = <<_positions[k].exchange, _positions[k].symbol, _positions[k].product_type>>
            /\ fills[k] # << >>)
    /\ [][ /\ (DOMAIN _positions \subseteq DOMAIN _positions') \/ (simOp' = "exit_positions")
           /\ (simOps' = simOps + 1 /\ simOp' = "place_order") =>
                 \E k \in DOMAIN _positions' :
                    /\ fills'[k] = Append(DictGet(fills, k, << >>), fills'[k][Len(fills'[k])])
                    /\ k \notin DOMAIN _positions => Len(fills'[k]) = 1
                    /\ \A o \in DOMAIN _positions \ {k} : _positions'[o] = _positions[o] ]_vars

\* an INTRADAY position was bought and sold back to zero and is still held,
\* next to a CNC position of the same instrument
C16_Witness ==
    /\ simOp = "place_order"
    /\ <<"NSE", "INFY", "INTRADAY">> \in DOMAIN _positions
    /\ <<"NSE", "INFY", "CNC">> \in DOMAIN _positions
    /\ _positions[<<"NSE", "INFY", "INTRADAY">>].quantity_total = 0
    /\ _positions[<<"NSE", "INFY", "CNC">>].quantity_total = 100

\* C17: to_broker_symbol(broker, s) returns the registered resolver's result
\* when a resolver is registered for the broker, even if a static mapping for
\* s also exists; otherwise the static mapping entry for s when one exists;
\* otherwise s unchanged; it has a result for every broker and symbol.
C17_ResolverThenMappingThenSame ==
    [][ (symStage = "normalized" /\ symStage' = "native") =>
          LET b == symBroker'
              s == symNorm
          IN  symNative' =
                IF _resolvers[b] = "_fyers_resolver" THEN _fyers_resolver(s)
                ELSE IF _resolvers[b] = "_zerodha_resolver" THEN _zerodha_resolver(s)
                ELSE IF s \in DOMAIN _to_broker[b] THEN _to_broker[b][s]
                ELSE s ]_vars

\* fyers has its resolver and a static mapping of NSE:INFY to INFY.NS, and
\* the lookup of NSE:INFY gave the resolver's NSE:INFY-EQ
C17_Witness ==
    /\ symStage = "native"
    /\ symBroker = "fyers"
    /\ _resolvers["fyers"] = "_fyers_resolver"
    /\ symNorm = NSE_INFY
    /\ NSE_INFY \in DOMAIN _to_broker["fyers"]
    /\ _to_broker["fyers"][NSE_INFY] = <<"I","N","F","Y",".","N","S">>
    /\ symNative = NSE_INFY \o SUF_EQ

\* C18: for every input symbol, normalize returns "<EXCHANGE>:<TRADING_SYMBOL>"
\* with the exchange in upper case (NSE when the input has no exchange
\* delimiter) and the decoration suffixes -EQ and -STOCK stripped from the
\* trading-symbol part, whether or not the input carried an exchange prefix.
C18_NormalizeCanonicalForm ==
    (symStage = "normalized") =>
        /\ HasColon(symNorm)
        /\ SplitHead(symNorm) = StrUpper(SplitHead(symNorm))
        /\ ~HasColon(symInput) => SplitHead(symNorm) = NSE
        /\ ~EndsWith(SplitTail(symNorm), SUF_EQ)
        /\ ~EndsWith(SplitTail(symNorm), SUF_STOCK)

\* C19: the Brownian price step returns a strictly positive price, never
\* below the floor, for every finite input price (zero and negative
\* included) and every volatility.
C19_StepNeverBelowFloor ==
    /\ (simOp = "_bm_step") => (simResult.value >= PriceFloor /\ simResult.value > 0)
    /\ (simOp = "get_quote" /\ simOutcome = "returned") => simResult.last_price >= PriceFloor

\* a negative price stepped with a volatility of 200 % came back as the floor
C19_Witness ==
    /\ simOp = "_bm_step"
    /\ simResult.price < 0
    /\ simResult.sigma = 2000
    /\ simResult.value = PriceFloor

\* C20: every OrderResponse returned by place_order, cancel_order and
\* modify_order has status ok or error, and it carries an order identifier
\* if and only if its status is ok.
C20_OrderIdIffOk ==
    (simOp \in {"place_order", "cancel_order", "modify_order"} /\ simOutcome = "returned") =>
        /\ simResult.status \in {"ok", "error"}
        /\ (simResult.order_id \in Nat) <=> (simResult.status = "ok")

\* the bars of the first n driver calls of the running get_history, in call order
RECURSIVE BarsOfCalls(_)
BarsOfCalls(n) ==
    IF n = 0 THEN << >>
    ELSE BarsOfCalls(n - 1) \o DriverBars(h_profile, n, h_calls[n][1], h_calls[n][2])

\* C21: get_history calls the driver once per chunk in increasing date order
\* and returns the concatenation of the chunk results in that order; a chunk
\* for which the driver returns an empty list or nothing adds no bars, raises
\* no error, and does not stop the later chunks from being requested.
C21_ChunksConcatenated ==
    (h_pc \in {"returned", "TypeError"} /\ h_start_dt <= h_end_dt)
        => /\ h_pc = "returned"
           /\ h_all_candles = BarsOfCalls(Len(h_calls))
           /\ \A k \in 1..(Len(h_calls) - 1) :
                  ToOrdinal(h_calls[k][2]) < ToOrdinal(h_calls[k + 1][1])
           /\ h_calls # << >>
           /\ h_calls[Len(h_calls)][2] = h_end

\* C22: get_history terminates for every pair of valid start and end dates
\* and every interval: each loop iteration moves the chunk start strictly past
\* the previous chunk's end, and when start is after end it issues no driver
\* call and returns an empty list.
C22_HistoryTerminates ==
    /\ (h_pc = "loop") ~> (h_pc \in {"returned", "TypeError"})
    /\ [][ (h_pc = "loop" /\ h_pc' = "loop") =>
             /\ Len(h_calls') = Len(h_calls) + 1
             /\ h_current_start' > ToOrdinal(h_calls'[Len(h_calls')][2])
             /\ h_current_start' > h_current_start ]_vars
    /\ [](( h_pc \in {"returned", "TypeError"} /\ h_start_dt > h_end_dt)
            => (h_pc = "returned" /\ h_calls = << >> /\ h_all_candles = << >>))

\* a request of several chunks has returned, its start moved past its end
C22_Witness ==
    /\ h_pc = "returned"
    /\ Len(h_calls) >= 2
    /\ h_current_start > h_end_dt

\* C25: every chunk call get_history makes is a call the Driver Contract's
\* get_history (symbol, interval, start, end) accepts, so get_history through
\* the Gateway succeeds and returns bars on every driver that implements the
\* contract's signature, the simulated driver included.
C25_ChunkCallsFitContract ==
    (h_driver = "contract") =>
        /\ h_pc # "TypeError"
        /\ (h_pc = "returned" /\ h_start_dt <= h_end_dt) => h_all_candles # << >>

\* C23: when unsubscribe(S) is called while the streaming loop is replaying
\* bars, the symbols of S leave the tracked set at once and, from the next
\* time a loop reads the tracked set, it invokes no tick callback for a symbol
\* of S (its snapshot holds none), unless the symbol is subscribed again.
C23_UnsubscribeTakesEffect ==
    /\ [](\A k \in 1..Len(_ws_symbols) : _ws_symbols[k] \notin unsubscribed)
    /\ [][ \A l \in LoopIds :
             (loops[l].pc = "while" /\ loops'[l].pc = "for_i") =>
                 \A k \in 1..Len(loops'[l].symbols) : loops'[l].symbols[k] \notin unsubscribed ]_vars

\* A and B were unsubscribed while a loop stood in the middle of a bar
C23_Witness ==
    /\ unsubscribed = {"A", "B"}
    /\ _ws_on_ticks
    /\ \E l \in LoopIds : loops[l].pc = "emit" /\ loops[l].j = 2

\* C24: in every reachable state, after any sequence of place_order,
\* cancel_order and modify_order calls with arbitrary update maps, each ledger
\* entry's status is one of the fixed statuses (filled, cancelled, modified)
\* and its stored identifier equals the key it is stored under.
C24_LedgerEntriesWellFormed ==
    \A k \in DOMAIN _orders :
        /\ _orders[k].status \in {"COMPLETE", "CANCELLED", "MODIFIED"}
        /\ _orders[k].id = k

\* C26: in every reachable state at most one streaming loop is active per
\* driver instance, under every interleaving of connect_websocket calls,
\* clearings of the running flag and loop steps, including when the flag is
\* cleared and connect_websocket is called again before the old loop has
\* polled the flag.
C26_AtMostOneLoop ==
    NumActive <= 1

\* C27: for strictly positive fill prices, the average price of every
\* position is strictly positive and lies between the lowest and the highest
\* fill price of the fills made for its key, after any sequence of buys and
\* sells.
C27_AverageWithinFillPrices ==
    \A key \in DOMAIN _positions :
        LET f == fills[key]
            avg == _positions[key].average_price
        IN  (\A k \in 1..Len(f) : f[k].price > 0) =>
                /\ avg[1] > 0
                /\ \E k \in 1..Len(f) : f[k].price * avg[2] <= avg[1]
                /\ \E k \in 1..Len(f) : avg[1] <= f[k].price * avg[2]

\* C30: in every reachable state each position's total quantity equals its
\* available quantity and equals the signed sum (buy positive, sell negative)
\* of the quantities of all orders placed for its key since the last
\* exit_positions; cancel_order and modify_order never change any position.
C30_QuantityIsSignedSum ==
    /\ [](\A key \in DOMAIN _positions :
            /\ _positions[key].quantity_total = _positions[key].quantity_available
            /\ _positions[key].quantity_total = SignedSum(fills[key], Len(fills[key])))
    /\ [][ (simOps' = simOps + 1 /\ simOp' \in {"cancel_order", "modify_order"})
             => _positions' = _positions ]_vars

\* a position bought and partly sold, then one of its orders cancelled or
\* modified: the position still holds the signed sum
C30_Witness ==
    /\ simOp \in {"cancel_order", "modify_order"}
    /\ simResult.status = "ok"
    /\ \E key \in DOMAIN _positions :
          /\ Len(fills[key]) = 2
          /\ fills[key][1].side = "BUY" /\ fills[key][1].qty = 200
          /\ fills[key][2].side = "SELL" /\ fills[key][2].qty = 100
          /\ _positions[key].quantity_total = 100
          /\ _positions[key].quantity_available = 100

\* C28: every bar the simulated driver's get_history returns is a consistent
\* OHLC bar, low <= open <= high and low <= close <= high, and each bar's
\* open equals the previous bar's close.
C28_BarsConsistent ==
    (simOp = "get_history" /\ simOutcome = "returned") =>
        LET c == simResult.candles
        IN  /\ \A k \in 1..Len(c) :
                  /\ c[k].low <= c[k].open /\ c[k].open <= c[k].high
                  /\ c[k].low <= c[k].close /\ c[k].close <= c[k].high
            /\ \A k \in 2..Len(c) : c[k].open = c[k - 1].close

\* C29: if the streaming loop is running with a tick callback registered and
\* at least one symbol stays subscribed, the tick callback is eventually
\* invoked for that symbol (a loop reaches the emission of a bar), both when
\* a seed-broker gateway is present and when it is absent.
C29_TicksEventuallyEmitted ==
    (_ws_running /\ _ws_on_ticks /\ _ws_symbols # << >>)
        ~> ( \/ \E l \in LoopIds : loops[l].pc = "emit" /\ _ws_on_ticks
             \/ ~_ws_running
             \/ ~_ws_on_ticks
             \/ _ws_symbols = << >> )

====
